---- MODULE Spec2Model ----
(***************************************************************************)
(* Model of src/src/App.tsx (cela-geo-quest): the quiz battle of the App   *)
(* component.  The React state (scene, data, err, dex, battle) is the       *)
(* state of the model; every event handler and every setTimeout            *)
(* callback is one action.  A handler reads the state of the render it was  *)
(* created in; React renders between two events, so a handler started by a  *)
(* click reads the current state, while a setTimeout callback reads the     *)
(* values its closure captured when the timer was scheduled, and the        *)
(* argument b of a functional update setBattle(b => ...) is the state at    *)
(* the time the callback runs.                                              *)
(*                                                                         *)
(* The audio (useBgm) and the texts and images of the screens are not       *)
(* modelled.                                                                *)
(***************************************************************************)
EXTENDS Integers, Sequences, FiniteSets, TLC

VARIABLES
    scene,       \* useState<Scene>: which screen is shown
    doc,         \* the decoded body of /data.json, as fetch() returns it
    data,        \* useState<DataJson | null>
    err,         \* useState<string | null>
    dex,         \* useState<Record<string, true>>: the set of its keys
    battle,      \* useState<BattleState | null>
    timers,      \* the pending setTimeout callbacks, in scheduling order
    encounters,  \* history: how many times startBattle built a BattleState
    last,        \* history: the handler or callback that ran last, and the
                 \* dex it started from
    inputs       \* history: the choice indices answer() was run with in the
                 \* current encounter, kept by the specifications that record

vars == <<scene, doc, data, err, dex, battle, timers, encounters, last, inputs>>

(***************************************************************************)
(* Bounds of the model.                                                    *)
(***************************************************************************)
\* startBattle is run at most this many times in one behaviour
MaxEncounters == 2

\* answer() is started only while fewer timers than this are pending
MaxTimers == 2

\* the hp of a creature of the datasets of SpecEnemyHp is an integer of
\* -MaxHpInput .. MaxHpInput, or absent
MaxHpInput == 33

\* the difficulty of a creature of the datasets of SpecEnemyHp and SpecDamage
\* is an integer of -MaxDifficultyInput .. MaxDifficultyInput, or absent
MaxDifficultyInput == 7

\* SpecReplay runs answer() at most this many times
MaxInputs == 3

(***************************************************************************)
(* JavaScript values.                                                      *)
(***************************************************************************)
\* null (battle, data, err); the null of BattleState.finished is "none"
Null == [null |-> TRUE]

\* an absent or null field (x ?? d reads it as d) is <<>>, a present one <<x>>
Nullish(x, d) == IF x = <<>> THEN d ELSE x[1]

Min2(a, b) == IF a <= b THEN a ELSE b
Max2(a, b) == IF a >= b THEN a ELSE b

\* a decoded JSON value: t is its kind, and objects carry their fields in o
JUndefined == [t |-> "undefined"]
JNull == [t |-> "null"]
JNumber(n) == [t |-> "number", n |-> n]
JString(s) == [t |-> "string", s |-> s]
\* the empty array []: an array carries its elements in o
JArray == [t |-> "array", o |-> <<>>]
JObject(o) == [t |-> "object", o |-> o]

\* JavaScript's typeof
TypeOf(x) ==
    CASE x.t = "null" -> "object"
      [] x.t = "array" -> "object"
      [] OTHER -> x.t

\* JavaScript's truthiness, as used by x && ...
Truthy(x) ==
    CASE x.t \in {"undefined", "null"} -> FALSE
      [] x.t = "number" -> x.n # 0
      [] x.t = "string" -> x.s # ""
      [] OTHER -> TRUE

\* x.f of a decoded JSON value that is truthy
Field(x, f) ==
    IF x.t = "object" /\ f \in DOMAIN x.o THEN x.o[f] ELSE JUndefined

(***************************************************************************)
(* Helpers (App.tsx, "Helpers").                                           *)
(***************************************************************************)
\* clamp without its lower bound
clampNoMin(n, min, max) == Min2(max, n)

clamp(n, min, max) == Max2(min, Min2(max, n))

calcPlayerMaxHp == 5

\* calcEnemyMaxHp without the clamp of its result
calcEnemyMaxHpNoReclamp(m) ==
    LET base == clamp(Nullish(m.hp, 7), 3, 30)
        diff == clamp(Nullish(m.difficulty, 3), 1, 5)
    IN  base + (diff - 3)

calcEnemyMaxHp(m) ==
    LET base == clamp(Nullish(m.hp, 7), 3, 30)
        diff == clamp(Nullish(m.difficulty, 3), 1, 5)
    IN  clamp(base + (diff - 3), 3, 30)

\* calcDamage with the two attackers exchanged
calcDamageSwapped(attacker, difficulty) ==
    LET d == clamp(Nullish(difficulty, 3), 1, 5)
    IN  IF attacker = "enemy"
        THEN (IF d <= 2 THEN 2 ELSE IF d = 3 THEN 2 ELSE 1)
        ELSE (IF d <= 2 THEN 1 ELSE IF d = 3 THEN 1 ELSE 2)

\* calcDamage with difficulty 3 on the hard side of its table
calcDamageHardFrom3(attacker, difficulty) ==
    LET d == clamp(Nullish(difficulty, 3), 1, 5)
    IN  IF attacker = "player"
        THEN (IF d <= 2 THEN 2 ELSE IF d = 3 THEN 1 ELSE 1)
        ELSE (IF d <= 2 THEN 1 ELSE IF d = 3 THEN 2 ELSE 2)

calcDamage(attacker, difficulty) ==
    LET d == clamp(Nullish(difficulty, 3), 1, 5)
    IN  IF attacker = "player"
        THEN (IF d <= 2 THEN 2 ELSE IF d = 3 THEN 2 ELSE 1)
        ELSE (IF d <= 2 THEN 1 ELSE IF d = 3 THEN 1 ELSE 2)

isValidData(x) ==
    /\ Truthy(x)
    /\ TypeOf(x) = "object"
    /\ TypeOf(Field(x, "version")) = "number"
    /\ Truthy(Field(x, "monsters"))
    /\ TypeOf(Field(x, "monsters")) = "object"

(***************************************************************************)
(* The dataset (public/data.json).  A monster carries the fields the       *)
(* battle reads; a quiz carries a, the index of its correct choice.        *)
(***************************************************************************)
Monster(name, hp, difficulty, quizzes) ==
    [name |-> name, hp |-> hp, difficulty |-> difficulty, quizzes |-> quizzes]

Quiz(a) == [a |-> a]

\* three regions: two quizzes and difficulty 3; three quizzes and difficulty
\* 5; no quiz at all and no difficulty given
Monsters ==
    [p \in {"Easy", "Hard", "Bare"} |->
        CASE p = "Easy" -> Monster(p, <<3>>, <<3>>, <<Quiz(1), Quiz(3)>>)
          [] p = "Hard" -> Monster(p, <<3>>, <<5>>, <<Quiz(0), Quiz(2), Quiz(0)>>)
          [] p = "Bare" -> Monster(p, <<3>>, <<>>, <<>>)]

\* the documents /data.json may hold: a valid one, and malformed ones (no
\* monsters, a version that is a string, an array as monsters, null)
ValidDoc == JObject([version |-> JNumber(1), monsters |-> JObject(Monsters)])

Docs ==
    { ValidDoc,
      JObject([version |-> JNumber(1)]),
      JObject([version |-> JString("1"), monsters |-> JObject(Monsters)]),
      JObject([version |-> JNumber(1), monsters |-> JArray]),
      JNull }

\* what loadDex() may find in localStorage: nothing, or the regions captured
\* in an earlier session
StoredDexes == {{}, {"Easy"}}

\* the four choices of a quiz (Quiz.c)
Choices == 0 .. 3

\* m.quizzes ?? []: an absent list is modelled as the empty one
QuizzesOf(m) == m.quizzes

\* Object.keys(data.monsters), or [] while data is null
prefs == IF data = Null THEN {} ELSE DOMAIN data.o.monsters.o

(***************************************************************************)
(* Timers.  setTimeout(callback, ms) appends the callback to the pending   *)
(* timers.  How long a delay lasts against the player's clicks is left     *)
(* open: the player may click any number of times before a timer runs.     *)
(* The order of the timers among themselves is kept: a timer runs only     *)
(* after every timer scheduled before it with a delay no longer than its   *)
(* own.                                                                    *)
(***************************************************************************)
CounterDelayMs == 550
ResultDelayMs == 450
NestedDelayMs == 50

\* setTimeout(callback, ms): the callback with what its closure captured
SetTimeout(q, callback, ms) == Append(q, callback @@ [ms |-> ms])

\* the enemy counter of answer(): its closure holds enemy and battle
CounterCallback(b) ==
    [kind |-> "counter", enc |-> b.id, enemy |-> b.enemy, playerHp |-> b.playerHp]

\* the timer the enemy counter starts: its closure holds battle
NestedCallback(t) ==
    [kind |-> "nested", enc |-> t.enc, playerHp |-> t.playerHp]

\* () => setScene("result")
ResultCallback(b) == [kind |-> "result", enc |-> b.id]

RemoveAt(q, i) == SubSeq(q, 1, i - 1) \o SubSeq(q, i + 1, Len(q))

\* the i-th pending timer may run now: no timer scheduled before it is due
\* earlier
Due(i) == \A j \in 1 .. (i - 1) : timers[j].ms > timers[i].ms

PendingCounters(e) ==
    {i \in 1 .. Len(timers) : timers[i].kind = "counter" /\ timers[i].enc = e}

(***************************************************************************)
(* Messages (BattleState.lastMsg).                                         *)
(***************************************************************************)
Msg(text, name, dmg) == [text |-> text, name |-> name, dmg |-> dmg]

(***************************************************************************)
(* Initial state: the first render, before the data load effect resolves.  *)
(***************************************************************************)
Init ==
    /\ scene = "loading"
    /\ doc \in Docs
    /\ data = Null
    /\ err = Null
    /\ dex \in StoredDexes
    /\ battle = Null
    /\ timers = <<>>
    /\ encounters = 0
    /\ last = [op |-> "init", enc |-> 0, dex |-> dex]
    /\ inputs = [recording |-> FALSE, choices |-> <<>>]

\* history: answer(choiceIdx) was run, after the choices recorded so far
Submitted(choiceIdx) ==
    IF inputs.recording
    THEN [inputs EXCEPT !.choices = Append(@, choiceIdx)]
    ELSE inputs

\* history: handler op ran for encounter enc, and the dex was dex before it
Ran(op, enc) == last' = [op |-> op, enc |-> enc, dex |-> dex]

(***************************************************************************)
(* Load data.json (useEffect).  The effect runs once, after the first      *)
(* render; a fetch that fails ends as a malformed document does, with err  *)
(* set.                                                                    *)
(***************************************************************************)
LoadData ==
    /\ scene = "loading"
    /\ data = Null
    /\ err = Null
    /\ IF isValidData(doc)
       THEN /\ data' = doc
            /\ scene' = "title"
            /\ err' = err
       ELSE /\ err' = [message |-> "invalid data.json"]
            /\ scene' = "loading"
            /\ data' = data
    /\ Ran("load", 0)
    /\ UNCHANGED <<doc, dex, battle, timers, encounters, inputs>>

(***************************************************************************)
(* Navigation: the buttons that only call setScene, and the name field.    *)
(***************************************************************************)
\* no screen matches (scene, battle): the "screen not found" fallback is shown
NoScreen ==
    /\ scene \in {"battle", "result"}
    /\ battle = Null

\* the scenes the buttons of the current screen lead to.  The player's name
\* (playerName, typed on the name screen) is not modelled: the start button
\* leads to the map when a name is set and to the name screen otherwise, and
\* the name screen's button to the map is enabled when a name is set
SceneButtons ==
    CASE scene = "title" -> {"dex", "name", "map"}
      [] scene = "name" -> {"title", "map"}
      [] scene = "map" -> {"dex", "title"}
      [] scene = "dex" -> {"map", "title"}
      [] NoScreen -> {"title"}
      [] OTHER -> {}

Navigate(to) ==
    /\ to \in SceneButtons
    /\ scene' = to
    /\ Ran("navigate", 0)
    /\ UNCHANGED <<doc, data, err, dex, battle, timers, encounters, inputs>>

\* the reset button of the map screen: setDex({})
ResetDex ==
    /\ scene = "map"
    /\ dex' = {}
    /\ Ran("resetDex", 0)
    /\ UNCHANGED <<scene, doc, data, err, battle, timers, encounters, inputs>>

(***************************************************************************)
(* startBattle, goMap, goDex.                                              *)
(***************************************************************************)
\* startBattle carrying the player's HP over from the encounter before
NewBattleKeepsPlayerHp(pref, id) ==
    LET m == data.o.monsters.o[pref]
        playerMaxHp == calcPlayerMaxHp
        enemyMaxHp == calcEnemyMaxHp(m)
        quizzes == QuizzesOf(m)
        quizIndex == IF Len(quizzes) > 0 THEN 0 ELSE -1
    IN  [id |-> id,
         pref |-> pref,
         enemy |-> m,
         enemyHp |-> enemyMaxHp,
         enemyMaxHp |-> enemyMaxHp,
         playerHp |-> IF battle = Null THEN playerMaxHp ELSE battle.playerHp,
         playerMaxHp |-> playerMaxHp,
         quizIndex |-> quizIndex,
         lastMsg |-> Msg("appeared", m.name, 0),
         finished |-> "none",
         answered |-> FALSE,
         grayscaleEnemy |-> FALSE]

\* the BattleState startBattle builds for region pref, as encounter number id
NewBattle(pref, id) ==
    LET m == data.o.monsters.o[pref]
        playerMaxHp == calcPlayerMaxHp
        enemyMaxHp == calcEnemyMaxHp(m)
        quizzes == QuizzesOf(m)
        quizIndex == IF Len(quizzes) > 0 THEN 0 ELSE -1
    IN  [id |-> id,
         pref |-> pref,
         enemy |-> m,
         enemyHp |-> enemyMaxHp,
         enemyMaxHp |-> enemyMaxHp,
         playerHp |-> playerMaxHp,
         playerMaxHp |-> playerMaxHp,
         quizIndex |-> quizIndex,
         lastMsg |-> Msg("appeared", m.name, 0),
         finished |-> "none",
         answered |-> FALSE,
         grayscaleEnemy |-> FALSE]

\* the regions a button of the current screen starts a battle with
FightButtons ==
    CASE scene \in {"map", "dex"} -> prefs
      [] scene = "result" /\ battle # Null -> {battle.pref}
      [] OTHER -> {}

startBattle(pref) ==
    /\ pref \in FightButtons
    /\ encounters < MaxEncounters
    /\ IF data = Null \/ pref \notin prefs
       THEN UNCHANGED <<battle, scene, encounters, inputs>>
       ELSE /\ battle' = NewBattle(pref, encounters + 1)
            /\ scene' = "battle"
            /\ encounters' = encounters + 1
            /\ inputs' = [inputs EXCEPT !.choices = <<>>]
    /\ Ran("startBattle", encounters')
    /\ UNCHANGED <<doc, data, err, dex, timers>>

\* the map button that registers the region it leaves
goMapCaptures ==
    /\ scene \in {"battle", "result"}
    /\ battle # Null
    /\ battle' = Null
    /\ scene' = "map"
    /\ dex' = dex \cup {battle.pref}
    /\ Ran("goMap", battle.id)
    /\ UNCHANGED <<doc, data, err, timers, encounters, inputs>>

\* the map button of the battle screen and of the result screen
goMap ==
    /\ scene \in {"battle", "result"}
    /\ battle # Null
    /\ battle' = Null
    /\ scene' = "map"
    /\ Ran("goMap", battle.id)
    /\ UNCHANGED <<doc, data, err, dex, timers, encounters, inputs>>

\* the dex button of the result screen
goDex ==
    /\ scene = "result"
    /\ battle # Null
    /\ battle' = Null
    /\ scene' = "dex"
    /\ Ran("goDex", battle.id)
    /\ UNCHANGED <<doc, data, err, dex, timers, encounters, inputs>>

(***************************************************************************)
(* answer(choiceIdx).                                                      *)
(***************************************************************************)
\* the battle screen shows the four choices of the current quiz (hasQuiz and
\* quizzes[battle.quizIndex] defined); otherwise it shows the attack button
QuizPanel ==
    /\ Len(QuizzesOf(battle.enemy)) > 0
    /\ battle.quizIndex >= 0
    /\ battle.quizIndex < Len(QuizzesOf(battle.enemy))

\* the choices whose button answer() can be started from: the choice buttons
\* are disabled once the battle is finished, the attack button never is
AnswerButtons ==
    IF scene = "battle" /\ battle # Null
    THEN IF QuizPanel
         THEN (IF battle.finished # "none" THEN {} ELSE Choices)
         ELSE {0}
    ELSE {}

\* quizIndex after a quiz is used up, for the quizzes of the captured enemy
NextQuizIndex(b, enemy) ==
    IF b.quizIndex + 1 < Len(QuizzesOf(enemy)) THEN b.quizIndex + 1 ELSE 0

\* the fallback attack whose capture writes a Dex of the won region alone
AnswerFallbackForgetsDex ==
    LET enemy == battle.enemy
        dmg == 1
        newHp == clamp(battle.enemyHp - dmg, 0, battle.enemyMaxHp)
        win == newHp <= 0
    IN  /\ battle' = [battle EXCEPT
                !.enemyHp = newHp,
                !.lastMsg = IF win THEN Msg("defeated", enemy.name, 0)
                                   ELSE Msg("hit", enemy.name, dmg),
                !.finished = IF win THEN "win" ELSE "none",
                !.grayscaleEnemy = IF win THEN TRUE ELSE @,
                !.answered = TRUE]
        /\ IF win
           THEN /\ dex' = {battle.pref}
                /\ scene' = "result"
           ELSE UNCHANGED <<dex, scene>>
        /\ UNCHANGED timers
        /\ Ran("answerFallback", battle.id)

\* no quiz: a plain attack of 1
AnswerFallback ==
    LET enemy == battle.enemy
        dmg == 1
        newHp == clamp(battle.enemyHp - dmg, 0, battle.enemyMaxHp)
        win == newHp <= 0
    IN  /\ battle' = [battle EXCEPT
                !.enemyHp = newHp,
                !.lastMsg = IF win THEN Msg("defeated", enemy.name, 0)
                                   ELSE Msg("hit", enemy.name, dmg),
                !.finished = IF win THEN "win" ELSE "none",
                !.grayscaleEnemy = IF win THEN TRUE ELSE @,
                !.answered = TRUE]
        /\ IF win
           THEN /\ dex' = dex \cup {battle.pref}
                /\ scene' = "result"
           ELSE UNCHANGED <<dex, scene>>
        /\ UNCHANGED timers
        /\ Ran("answerFallback", battle.id)

\* the right choice, without the return that ends the handler on a win: the
\* enemy counter is scheduled after the result timer
AnswerCorrectNoReturn ==
    LET enemy == battle.enemy
        dmg == calcDamage("player", enemy.difficulty)
        newEnemyHp == clamp(battle.enemyHp - dmg, 0, battle.enemyMaxHp)
        win == newEnemyHp <= 0
    IN  /\ battle' = [battle EXCEPT
                !.enemyHp = newEnemyHp,
                !.lastMsg = IF win THEN Msg("correctDefeated", enemy.name, 0)
                                   ELSE Msg("correctHit", enemy.name, dmg),
                !.finished = IF win THEN "win" ELSE "none",
                !.grayscaleEnemy = IF win THEN TRUE ELSE @,
                !.answered = TRUE]
        /\ dex' = IF win THEN dex \cup {battle.pref} ELSE dex
        /\ timers' = SetTimeout(
                IF win
                THEN SetTimeout(timers, ResultCallback(battle), ResultDelayMs)
                ELSE timers,
                CounterCallback(battle), CounterDelayMs)
        /\ scene' = scene
        /\ Ran(IF win THEN "answerCorrectWin" ELSE "answerCorrect", battle.id)

\* the right choice, without the lock: answered is left as it was
AnswerCorrectNoLock ==
    LET enemy == battle.enemy
        dmg == calcDamage("player", enemy.difficulty)
        newEnemyHp == clamp(battle.enemyHp - dmg, 0, battle.enemyMaxHp)
        win == newEnemyHp <= 0
    IN  /\ battle' = [battle EXCEPT
                !.enemyHp = newEnemyHp,
                !.lastMsg = IF win THEN Msg("correctDefeated", enemy.name, 0)
                                   ELSE Msg("correctHit", enemy.name, dmg),
                !.finished = IF win THEN "win" ELSE "none",
                !.grayscaleEnemy = IF win THEN TRUE ELSE @]
        /\ IF win
           THEN /\ dex' = dex \cup {battle.pref}
                /\ timers' = SetTimeout(timers, ResultCallback(battle), ResultDelayMs)
           ELSE /\ dex' = dex
                /\ timers' = SetTimeout(timers, CounterCallback(battle), CounterDelayMs)
        /\ scene' = scene
        /\ Ran(IF win THEN "answerCorrectWin" ELSE "answerCorrect", battle.id)

\* the right choice: the player hits, and the enemy counters after a delay
\* the right answer that leaves the defeated enemy in colour
AnswerCorrectNoGray ==
    LET enemy == battle.enemy
        dmg == calcDamage("player", enemy.difficulty)
        newEnemyHp == clamp(battle.enemyHp - dmg, 0, battle.enemyMaxHp)
        win == newEnemyHp <= 0
    IN  /\ battle' = [battle EXCEPT
                !.enemyHp = newEnemyHp,
                !.lastMsg = IF win THEN Msg("correctDefeated", enemy.name, 0)
                                   ELSE Msg("correctHit", enemy.name, dmg),
                !.finished = IF win THEN "win" ELSE "none",
                !.answered = TRUE]
        /\ IF win
           THEN /\ dex' = dex \cup {battle.pref}
                /\ timers' = SetTimeout(timers, ResultCallback(battle), ResultDelayMs)
           ELSE /\ dex' = dex
                /\ timers' = SetTimeout(timers, CounterCallback(battle), CounterDelayMs)
        /\ scene' = scene
        /\ Ran(IF win THEN "answerCorrectWin" ELSE "answerCorrect", battle.id)

AnswerCorrect ==
    LET enemy == battle.enemy
        dmg == calcDamage("player", enemy.difficulty)
        newEnemyHp == clamp(battle.enemyHp - dmg, 0, battle.enemyMaxHp)
        win == newEnemyHp <= 0
    IN  /\ battle' = [battle EXCEPT
                !.enemyHp = newEnemyHp,
                !.lastMsg = IF win THEN Msg("correctDefeated", enemy.name, 0)
                                   ELSE Msg("correctHit", enemy.name, dmg),
                !.finished = IF win THEN "win" ELSE "none",
                !.grayscaleEnemy = IF win THEN TRUE ELSE @,
                !.answered = TRUE]
        /\ IF win
           THEN /\ dex' = dex \cup {battle.pref}
                /\ timers' = SetTimeout(timers, ResultCallback(battle), ResultDelayMs)
           ELSE /\ dex' = dex
                /\ timers' = SetTimeout(timers, CounterCallback(battle), CounterDelayMs)
        /\ scene' = scene
        /\ Ran(IF win THEN "answerCorrectWin" ELSE "answerCorrect", battle.id)

\* a wrong choice, with the next quiz taken only while the player survives
AnswerWrongKeepsQuiz ==
    LET enemy == battle.enemy
        edmg == calcDamage("enemy", enemy.difficulty)
        newPlayerHp == clamp(battle.playerHp - edmg, 0, battle.playerMaxHp)
        lose == newPlayerHp <= 0
    IN  /\ battle' = [battle EXCEPT
                !.playerHp = newPlayerHp,
                !.lastMsg = IF lose THEN Msg("wrongLost", enemy.name, 0)
                                    ELSE Msg("wrongHit", enemy.name, edmg),
                !.finished = IF lose THEN "lose" ELSE "none",
                !.answered = FALSE,
                !.quizIndex = IF lose THEN @ ELSE NextQuizIndex(battle, enemy)]
        /\ timers' = IF lose
                     THEN SetTimeout(timers, ResultCallback(battle), ResultDelayMs)
                     ELSE timers
        /\ UNCHANGED <<dex, scene>>
        /\ Ran(IF lose THEN "answerWrongLose" ELSE "answerWrong", battle.id)

\* a wrong choice: the enemy hits at once
AnswerWrong ==
    LET enemy == battle.enemy
        edmg == calcDamage("enemy", enemy.difficulty)
        newPlayerHp == clamp(battle.playerHp - edmg, 0, battle.playerMaxHp)
        lose == newPlayerHp <= 0
    IN  /\ battle' = [battle EXCEPT
                !.playerHp = newPlayerHp,
                !.lastMsg = IF lose THEN Msg("wrongLost", enemy.name, 0)
                                    ELSE Msg("wrongHit", enemy.name, edmg),
                !.finished = IF lose THEN "lose" ELSE "none",
                !.answered = FALSE,
                !.quizIndex = NextQuizIndex(battle, enemy)]
        /\ timers' = IF lose
                     THEN SetTimeout(timers, ResultCallback(battle), ResultDelayMs)
                     ELSE timers
        /\ UNCHANGED <<dex, scene>>
        /\ Ran(IF lose THEN "answerWrongLose" ELSE "answerWrong", battle.id)

answer(choiceIdx) ==
    /\ choiceIdx \in AnswerButtons
    /\ Len(timers) < MaxTimers
    /\ LET quizzes == QuizzesOf(battle.enemy)
       IN  CASE battle = Null \/ battle.finished # "none" ->
                    \* if (!battle || battle.finished) return
                    /\ Ran("answerIgnored", battle.id)
                    /\ UNCHANGED <<battle, dex, scene, timers>>
             [] OTHER ->
                    IF Len(quizzes) = 0 \/ battle.quizIndex < 0
                    THEN AnswerFallback
                    ELSE IF battle.quizIndex >= Len(quizzes)
                    THEN \* q is undefined and q.a throws: the handler ends here
                         /\ Ran("answerThrows", battle.id)
                         /\ UNCHANGED <<battle, dex, scene, timers>>
                    ELSE IF quizzes[battle.quizIndex + 1].a = choiceIdx
                    THEN AnswerCorrect
                    ELSE AnswerWrong
    /\ inputs' = Submitted(choiceIdx)
    /\ UNCHANGED <<doc, data, err, encounters>>

(***************************************************************************)
(* The setTimeout callbacks.                                               *)
(***************************************************************************)
\* the enemy counter without its check of b.finished
CounterUpdateUnguarded(b, enemy) ==
    IF b = Null
    THEN b
    ELSE LET edmg == calcDamage("enemy", enemy.difficulty)
             newPlayerHp == clamp(b.playerHp - edmg, 0, b.playerMaxHp)
             lose == newPlayerHp <= 0
         IN  [b EXCEPT
                !.playerHp = newPlayerHp,
                !.lastMsg = IF lose THEN Msg("counterLost", enemy.name, 0)
                                    ELSE Msg("counterHit", enemy.name, edmg),
                !.finished = IF lose THEN "lose" ELSE "none",
                !.answered = FALSE,
                !.quizIndex = NextQuizIndex(b, enemy)]

\* the functional update of the enemy counter, applied to the current battle b
\* with the enemy its closure captured
\* the updater of the enemy counter leaving answered as it finds it
CounterUpdateKeepsLock(b, enemy) ==
    IF b = Null \/ b.finished # "none"
    THEN b
    ELSE LET edmg == calcDamage("enemy", enemy.difficulty)
             newPlayerHp == clamp(b.playerHp - edmg, 0, b.playerMaxHp)
             lose == newPlayerHp <= 0
         IN  [b EXCEPT
                !.playerHp = newPlayerHp,
                !.lastMsg = IF lose THEN Msg("counterLost", enemy.name, 0)
                                    ELSE Msg("counterHit", enemy.name, edmg),
                !.finished = IF lose THEN "lose" ELSE "none",
                !.quizIndex = NextQuizIndex(b, enemy)]

\* the updater of the enemy counter bringing a discarded battle back
CounterUpdateRevives(b, enemy) ==
    IF b = Null
    THEN NewBattle(enemy.name, encounters)
    ELSE IF b.finished # "none"
    THEN b
    ELSE LET edmg == calcDamage("enemy", enemy.difficulty)
             newPlayerHp == clamp(b.playerHp - edmg, 0, b.playerMaxHp)
             lose == newPlayerHp <= 0
         IN  [b EXCEPT
                !.playerHp = newPlayerHp,
                !.lastMsg = IF lose THEN Msg("counterLost", enemy.name, 0)
                                    ELSE Msg("counterHit", enemy.name, edmg),
                !.finished = IF lose THEN "lose" ELSE "none",
                !.answered = FALSE,
                !.quizIndex = NextQuizIndex(b, enemy)]

CounterUpdate(b, enemy) ==
    IF b = Null \/ b.finished # "none"
    THEN b
    ELSE LET edmg == calcDamage("enemy", enemy.difficulty)
             newPlayerHp == clamp(b.playerHp - edmg, 0, b.playerMaxHp)
             lose == newPlayerHp <= 0
         IN  [b EXCEPT
                !.playerHp = newPlayerHp,
                !.lastMsg = IF lose THEN Msg("counterLost", enemy.name, 0)
                                    ELSE Msg("counterHit", enemy.name, edmg),
                !.finished = IF lose THEN "lose" ELSE "none",
                !.answered = FALSE,
                !.quizIndex = NextQuizIndex(b, enemy)]

\* the enemy counter, 550 ms after a right answer that left the enemy alive
EnemyCounter(i) ==
    /\ i \in 1 .. Len(timers)
    /\ timers[i].kind = "counter"
    /\ Due(i)
    /\ battle' = CounterUpdate(battle, timers[i].enemy)
    /\ timers' = SetTimeout(RemoveAt(timers, i), NestedCallback(timers[i]), NestedDelayMs)
    /\ Ran("counter", timers[i].enc)
    /\ UNCHANGED <<scene, doc, data, err, dex, encounters, inputs>>

\* the timer the enemy counter starts, 50 ms later: it reads battle.playerHp
\* of the render answer() ran in
NestedTimer(i) ==
    /\ i \in 1 .. Len(timers)
    /\ timers[i].kind = "nested"
    /\ Due(i)
    /\ scene' = IF timers[i].playerHp <= 0 THEN "result" ELSE scene
    /\ timers' = RemoveAt(timers, i)
    /\ Ran("nested", timers[i].enc)
    /\ UNCHANGED <<doc, data, err, dex, battle, encounters, inputs>>

\* setScene("result"), 450 ms after a win or a loss by a wrong answer
ResultTimer(i) ==
    /\ i \in 1 .. Len(timers)
    /\ timers[i].kind = "result"
    /\ Due(i)
    /\ scene' = "result"
    /\ timers' = RemoveAt(timers, i)
    /\ Ran("result", timers[i].enc)
    /\ UNCHANGED <<doc, data, err, dex, battle, encounters, inputs>>

(***************************************************************************)
(* The specification.                                                      *)
(***************************************************************************)
Next ==
    \/ LoadData
    \/ \E to \in {"title", "name", "map", "dex"} : Navigate(to)
    \/ ResetDex
    \/ \E pref \in DOMAIN Monsters : startBattle(pref)
    \/ goMap
    \/ goDex
    \/ \E choiceIdx \in Choices : answer(choiceIdx)
    \/ \E i \in 1 .. Len(timers) : EnemyCounter(i)
    \/ \E i \in 1 .. Len(timers) : NestedTimer(i)
    \/ \E i \in 1 .. Len(timers) : ResultTimer(i)

Spec == Init /\ [][Next]_vars

(***************************************************************************)
(* Properties.                                                             *)
(***************************************************************************)
\* the step is a run of answer()
AnswerStep == \E choiceIdx \in Choices : answer(choiceIdx)

\* the step keeps the encounter: battle is the same BattleState object's
\* successor, not a new encounter and not null
SameEncounter == battle # Null /\ battle' # Null /\ battle'.id = battle.id

\* C1: in every state with an active encounter, 0 <= enemyHp <= enemyMaxHp and
\* 0 <= playerHp <= playerMaxHp, and playerMaxHp = 5
C1_HpWithinBounds ==
    battle # Null =>
        /\ 0 <= battle.enemyHp /\ battle.enemyHp <= battle.enemyMaxHp
        /\ 0 <= battle.playerHp /\ battle.playerHp <= battle.playerMaxHp
        /\ battle.playerMaxHp = 5

\* C1 witness: the second encounter, after a retry or an abandon, in which a
\* counter of 2 took the player from 1 to 0
C1_Witness ==
    /\ battle # Null
    /\ battle.id = 2
    /\ last.op = "counter"
    /\ battle.playerHp = 0
    /\ battle.lastMsg.text = "counterLost"
    /\ battle.enemyHp < battle.enemyMaxHp

\* C2: once finished is win or lose, a step that is not startBattle, goMap or
\* goDex (so every answer() and every enemy counter) leaves the BattleState
\* and the Dex as they are
C2_TerminalIsFrozen ==
    [][(battle # Null /\ battle.finished # "none") =>
            \/ battle' = battle /\ dex' = dex
            \/ \E pref \in DOMAIN Monsters : startBattle(pref)
            \/ goMap
            \/ goDex]_vars

\* C2 witness: answer() has run on a finished encounter
C2_Witness ==
    /\ battle # Null
    /\ battle.finished # "none"
    /\ last.op = "answerIgnored"

\* C2, second case: an enemy counter has run on its own encounter after it
\* was won
C2_WitnessCounter ==
    /\ battle # Null
    /\ battle.finished = "win"
    /\ last.op = "counter"
    /\ last.enc = battle.id

\* the counters pending in a queue of timers
CountersIn(q) == {j \in 1 .. Len(q) : q[j].kind = "counter"}

\* the step schedules no enemy counter: every counter pending after it was
\* pending before it
NoCounterScheduled ==
    \A j \in CountersIn(timers') : j <= Len(timers) /\ timers'[j] = timers[j]

\* the unfinished battle shows a quiz, and choiceIdx is its right (wrong) choice
IsCorrect(choiceIdx) ==
    /\ battle.finished = "none"
    /\ battle.quizIndex >= 0
    /\ battle.quizIndex < Len(QuizzesOf(battle.enemy))
    /\ QuizzesOf(battle.enemy)[battle.quizIndex + 1].a = choiceIdx

IsWrong(choiceIdx) ==
    /\ battle.finished = "none"
    /\ battle.quizIndex >= 0
    /\ battle.quizIndex < Len(QuizzesOf(battle.enemy))
    /\ QuizzesOf(battle.enemy)[battle.quizIndex + 1].a # choiceIdx

\* the encounter is in fallback mode: its creature has no quiz
Fallback(b) == Len(QuizzesOf(b.enemy)) = 0

\* C3: an enemy counter scheduled during an earlier encounter changes nothing
\* of the BattleState of the encounter that is active when it runs
C3_StaleCounterHarmless ==
    [][\A i \in 1 .. Len(timers) :
            (battle # Null /\ timers[i].enc # battle.id /\ EnemyCounter(i)) =>
                /\ battle'.playerHp = battle.playerHp
                /\ battle'.quizIndex = battle.quizIndex
                /\ battle'.answered = battle.answered
                /\ battle'.finished = battle.finished
                /\ battle'.lastMsg = battle.lastMsg]_vars

\* C4: while answered is true in an unfinished encounter, answer() changes no
\* field of the BattleState and schedules nothing
C4_AnsweredLocksInput ==
    [][(battle # Null /\ battle.finished = "none" /\ battle.answered /\ AnswerStep) =>
            /\ battle'.enemyHp = battle.enemyHp
            /\ battle'.playerHp = battle.playerHp
            /\ battle'.quizIndex = battle.quizIndex
            /\ battle'.finished = battle.finished
            /\ battle'.answered = battle.answered
            /\ timers' = timers]_vars

\* C5: at most one enemy counter scheduled by the active encounter is pending
C5_AtMostOnePendingCounter ==
    battle # Null => Cardinality(PendingCounters(battle.id)) <= 1

\* C6: a right answer that leaves the enemy alive takes damage(player,
\* difficulty) from enemyHp, sets answered, schedules one enemy counter, and
\* leaves playerHp, quizIndex and finished (none) as they were
C6_CorrectAnswerHit ==
    [][\A choiceIdx \in Choices :
            (battle # Null /\ IsCorrect(choiceIdx) /\ answer(choiceIdx)
                /\ battle'.enemyHp > 0) =>
                /\ battle'.enemyHp =
                        battle.enemyHp - calcDamage("player", battle.enemy.difficulty)
                /\ battle'.answered = TRUE
                /\ Len(timers') = Len(timers) + 1
                /\ SubSeq(timers', 1, Len(timers)) = timers
                /\ timers'[Len(timers')].kind = "counter"
                /\ timers'[Len(timers')].enc = battle.id
                /\ battle'.playerHp = battle.playerHp
                /\ battle'.quizIndex = battle.quizIndex
                /\ battle'.finished = "none"]_vars

\* C6 witness: a right answer has hit an enemy that is still alive
C6_Witness ==
    /\ battle # Null
    /\ last.op = "answerCorrect"
    /\ last.enc = battle.id
    /\ battle.enemyHp > 0
    /\ battle.enemyHp < battle.enemyMaxHp
    /\ battle.answered
    /\ PendingCounters(battle.id) # {}

\* C7: an enemy counter that runs on its own, unfinished encounter takes
\* damage(enemy, difficulty) from playerHp (not below 0), sets quizIndex to
\* (quizIndex + 1) mod quizCount, clears answered, keeps enemyHp, and sets
\* finished to lose exactly when playerHp is then 0
C7_CounterEffect ==
    [][\A i \in 1 .. Len(timers) :
            (battle # Null /\ battle.finished = "none" /\ timers[i].enc = battle.id
                /\ EnemyCounter(i)) =>
                /\ battle'.playerHp =
                        Max2(0, battle.playerHp - calcDamage("enemy", battle.enemy.difficulty))
                /\ battle'.quizIndex =
                        (battle.quizIndex + 1) % Len(QuizzesOf(battle.enemy))
                /\ battle'.answered = FALSE
                /\ battle'.enemyHp = battle.enemyHp
                /\ battle'.finished = IF battle'.playerHp = 0 THEN "lose" ELSE "none"]_vars

\* C8: a right answer that takes enemyHp to 0 sets finished to win and
\* grayscaleEnemy in the same step, schedules no enemy counter, and adds the
\* region to the Dex; as long as the won encounter stays, playerHp and the Dex
\* do not change
C8_CorrectAnswerWin ==
    [][/\ \A choiceIdx \in Choices :
            (battle # Null /\ IsCorrect(choiceIdx) /\ answer(choiceIdx)
                /\ battle'.enemyHp = 0) =>
                /\ battle'.finished = "win"
                /\ battle'.grayscaleEnemy = TRUE
                /\ NoCounterScheduled
                /\ battle'.playerHp = battle.playerHp
                /\ dex' = dex \cup {battle.pref}
       /\ (battle # Null /\ battle.finished = "win" /\ SameEncounter) =>
                /\ battle'.playerHp = battle.playerHp
                /\ dex' = dex]_vars

\* C8 witness: a right answer has just won the encounter
C8_Witness ==
    /\ battle # Null
    /\ last.op = "answerCorrectWin"
    /\ last.enc = battle.id
    /\ battle.enemyHp = 0
    /\ battle.finished = "win"
    /\ battle.pref \in dex

\* C9: a wrong answer is resolved in its own step: playerHp goes down by
\* damage(enemy, difficulty), not below 0 (by 2 at difficulty 5), quizIndex
\* becomes (quizIndex + 1) mod quizCount, enemyHp stays, answered is false,
\* finished is lose exactly when playerHp is then 0, and no enemy counter is
\* scheduled
C9_WrongAnswer ==
    [][\A choiceIdx \in Choices :
            (battle # Null /\ IsWrong(choiceIdx) /\ answer(choiceIdx)) =>
                /\ battle'.playerHp =
                        Max2(0, battle.playerHp - calcDamage("enemy", battle.enemy.difficulty))
                /\ (battle.enemy.difficulty = <<5>> =>
                        battle'.playerHp = Max2(0, battle.playerHp - 2))
                /\ battle'.quizIndex =
                        (battle.quizIndex + 1) % Len(QuizzesOf(battle.enemy))
                /\ battle'.enemyHp = battle.enemyHp
                /\ battle'.answered = FALSE
                /\ battle'.finished = IF battle'.playerHp = 0 THEN "lose" ELSE "none"
                /\ NoCounterScheduled]_vars

\* C9 witness: a wrong answer has just lost the battle against the creature
\* of difficulty 5, on its last quiz
C9_Witness ==
    /\ battle # Null
    /\ last.op = "answerWrongLose"
    /\ last.enc = battle.id
    /\ battle.enemy.difficulty = <<5>>
    /\ battle.playerHp = 0
    /\ battle.finished = "lose"
    /\ battle.quizIndex = 0
    /\ battle.answered = FALSE

\* C10: in an encounter without quizzes every answer() takes exactly 1 from
\* enemyHp, playerHp never goes down, the encounter schedules no enemy counter,
\* and finished is win (with grayscaleEnemy, and the region in the Dex) exactly
\* from the step in which enemyHp reaches 0
C10_FallbackEncounter ==
    [][(battle # Null /\ Fallback(battle)) =>
            /\ (battle.finished = "none" /\ AnswerStep) =>
                    battle'.enemyHp = battle.enemyHp - 1
            /\ SameEncounter =>
                    /\ battle'.playerHp >= battle.playerHp
                    /\ (battle'.finished = "win") = (battle'.enemyHp = 0)
                    /\ battle'.finished = "win" =>
                            battle'.grayscaleEnemy /\ battle'.pref \in dex'
            /\ \A j \in CountersIn(timers') : timers'[j].enc # battle.id]_vars

\* C11: in every state with an active encounter, quizIndex is -1 when the
\* encounter's creature has no quiz, and otherwise an index into its quizzes
\* (0 <= quizIndex < number of quizzes)
C11_QuizIndexInRange ==
    battle # Null =>
        IF Len(QuizzesOf(battle.enemy)) = 0
        THEN battle.quizIndex = -1
        ELSE 0 <= battle.quizIndex /\ battle.quizIndex < Len(QuizzesOf(battle.enemy))

\* C12: a startBattle that builds a BattleState builds a fresh one, whatever
\* the state before it: enemyHp = enemyMaxHp, playerHp = playerMaxHp = 5,
\* finished none, answered false, grayscaleEnemy false, and quizIndex 0 when
\* the creature has a quiz and -1 when it has none
C12_StartBattleIsFresh ==
    [][\A pref \in DOMAIN Monsters :
            (data # Null /\ pref \in prefs /\ startBattle(pref)) =>
                /\ battle'.pref = pref
                /\ battle'.enemy = data.o.monsters.o[pref]
                /\ battle'.enemyHp = battle'.enemyMaxHp
                /\ battle'.playerHp = battle'.playerMaxHp
                /\ battle'.playerMaxHp = 5
                /\ battle'.finished = "none"
                /\ battle'.answered = FALSE
                /\ battle'.grayscaleEnemy = FALSE
                /\ battle'.quizIndex =
                        IF Len(QuizzesOf(data.o.monsters.o[pref])) >= 1 THEN 0 ELSE -1]_vars

\* C12 witness: startBattle has just built the second encounter, while the
\* result timer of the finished first encounter is still pending
C12_Witness ==
    /\ battle # Null
    /\ last.op = "startBattle"
    /\ battle.id = 2
    /\ scene = "battle"
    /\ battle.playerHp = 5
    /\ \E i \in 1 .. Len(timers) :
            timers[i].kind = "result" /\ timers[i].enc = 1

(***************************************************************************)
(* The helpers on arbitrary datasets.  The dataset has one region, whose   *)
(* creature has any hp and any difficulty, in range or not, or none.       *)
(***************************************************************************)
\* an optional integer field of the dataset: absent, or any of -max .. max
OptionalInts(max) == {<<>>} \cup {<<n>> : n \in (0 - max) .. max}

\* a data.json with the single region "Stat"
StatDoc(hp, difficulty) ==
    JObject([version |-> JNumber(1),
             monsters |-> JObject([p \in {"Stat"} |->
                            Monster(p, hp, difficulty, <<Quiz(1)>>)])])

EnemyHpDocs ==
    {StatDoc(hp, difficulty) :
        hp \in OptionalInts(MaxHpInput),
        difficulty \in OptionalInts(MaxDifficultyInput)}

\* the first render, with /data.json one of docs and an empty localStorage
InitFrom(docs) ==
    /\ scene = "loading"
    /\ doc \in docs
    /\ data = Null
    /\ err = Null
    /\ dex = {}
    /\ battle = Null
    /\ timers = <<>>
    /\ encounters = 0
    /\ last = [op |-> "init", enc |-> 0, dex |-> dex]
    /\ inputs = [recording |-> FALSE, choices |-> <<>>]

InitEnemyHp == InitFrom(EnemyHpDocs)

\* the player starts battles and leaves them, and never answers
NextEnemyHp ==
    \/ LoadData
    \/ \E to \in {"title", "name", "map", "dex"} : Navigate(to)
    \/ \E pref \in prefs : startBattle(pref)
    \/ goMap

SpecEnemyHp == InitEnemyHp /\ [][NextEnemyHp]_vars

\* n brought into 3 .. 30
Into3To30(n) == IF n < 3 THEN 3 ELSE IF n > 30 THEN 30 ELSE n

\* n brought into 1 .. 5
Into1To5(n) == IF n < 1 THEN 1 ELSE IF n > 5 THEN 5 ELSE n

\* enemyMaxHp is the clamped base hp plus (clamped difficulty - 3), clamped
\* again, for the hp and the difficulty of the creature (7 and 3 when absent)
EnemyMaxHpFormula ==
    LET hp == Nullish(battle.enemy.hp, 7)
        difficulty == Nullish(battle.enemy.difficulty, 3)
    IN  /\ battle.enemyMaxHp = Into3To30(Into3To30(hp) + (Into1To5(difficulty) - 3))
        /\ 3 <= battle.enemyMaxHp
        /\ battle.enemyMaxHp <= 30

\* C13, as stated: enemyMaxHp = clamp(clamp(hp,3,30) + (clamp(difficulty,1,5)
\* - 3), 3, 30), within 3 .. 30, and a creature of difficulty 5 has more HP
\* than its base hp and a creature of difficulty 1 less
C13_EnemyMaxHpAsStated ==
    (battle # Null /\ battle.enemy.hp # <<>>) =>
        /\ EnemyMaxHpFormula
        /\ battle.enemy.difficulty = <<5>> => battle.enemyMaxHp > battle.enemy.hp[1]
        /\ battle.enemy.difficulty = <<1>> => battle.enemyMaxHp < battle.enemy.hp[1]

\* C13, amended: enemyMaxHp = clamp(clamp(hp,3,30) + (clamp(difficulty,1,5)
\* - 3), 3, 30), within 3 .. 30; a creature of difficulty 5 has more HP than
\* its base hp exactly when its base hp is below 30 (and has 30 otherwise),
\* and a creature of difficulty 1 has less HP than its base hp exactly when
\* its base hp is above 3 (and has 3 otherwise)
C13_EnemyMaxHp ==
    battle # Null =>
        /\ EnemyMaxHpFormula
        /\ battle.enemy.hp # <<>> =>
            LET hp == battle.enemy.hp[1] IN
            /\ battle.enemy.difficulty = <<5>> =>
                    /\ (battle.enemyMaxHp > hp) = (hp < 30)
                    /\ hp >= 30 => battle.enemyMaxHp = 30
            /\ battle.enemy.difficulty = <<1>> =>
                    /\ (battle.enemyMaxHp < hp) = (hp > 3)
                    /\ hp <= 3 => battle.enemyMaxHp = 3

\* C13 witness: startBattle has built the encounter with a creature of base
\* hp 30 and difficulty 5, which has 30 HP and no more
C13_Witness ==
    /\ battle # Null
    /\ last.op = "startBattle"
    /\ battle.enemy.hp = <<30>>
    /\ battle.enemy.difficulty = <<5>>
    /\ battle.enemyMaxHp = 30
    /\ battle.enemyHp = 30

\* the datasets of SpecDamage: the creature has base hp 4 and any difficulty
DamageDocs ==
    {StatDoc(<<4>>, difficulty) : difficulty \in OptionalInts(MaxDifficultyInput)}

InitDamage == InitFrom(DamageDocs)

\* the player fights, and retries from the result screen
NextDamage ==
    \/ LoadData
    \/ \E to \in {"title", "name", "map", "dex"} : Navigate(to)
    \/ \E pref \in prefs : startBattle(pref)
    \/ \E choiceIdx \in Choices : answer(choiceIdx)
    \/ \E i \in 1 .. Len(timers) : EnemyCounter(i)
    \/ \E i \in 1 .. Len(timers) : NestedTimer(i)
    \/ \E i \in 1 .. Len(timers) : ResultTimer(i)

SpecDamage == InitDamage /\ [][NextDamage]_vars

\* the damage table: difficulty 1 to 3 favours the player, 4 and 5 the enemy
DamageTable(role, d) ==
    IF role = "player"
    THEN (IF d <= 3 THEN 2 ELSE 1)
    ELSE (IF d <= 3 THEN 1 ELSE 2)

\* C14: the damage of a hit is that of the table for the clamped difficulty
\* of the creature (3 when absent): 2 by the player and 1 by the enemy up to
\* difficulty 3, 1 by the player and 2 by the enemy from difficulty 4; it is
\* 1 or 2, whatever else the state holds
C14_DamageTable ==
    (battle # Null /\ battle.lastMsg.text \in {"correctHit", "wrongHit", "counterHit"}) =>
        LET d == Into1To5(Nullish(battle.enemy.difficulty, 3))
            role == IF battle.lastMsg.text = "correctHit" THEN "player" ELSE "enemy"
        IN  /\ battle.lastMsg.dmg = DamageTable(role, d)
            /\ battle.lastMsg.dmg \in {1, 2}

\* C14 witness: the counter of a creature of difficulty 7 (read as 5) has
\* just taken 2 from the player, after a hit of 1 by the player
C14_Witness ==
    /\ battle # Null
    /\ last.op = "counter"
    /\ battle.enemy.difficulty = <<7>>
    /\ battle.lastMsg.text = "counterHit"
    /\ battle.lastMsg.dmg = 2
    /\ battle.playerHp = battle.playerMaxHp - 2
    /\ battle.enemyHp = battle.enemyMaxHp - 1

\* the step takes the encounter from finished none to finished win
WinStep ==
    /\ SameEncounter
    /\ battle.finished = "none"
    /\ battle'.finished = "win"

\* C15: no step removes an entry of the Dex, except the reset button, which
\* empties it; and a capture of a region that is already in the Dex leaves
\* the Dex as it was
C15_DexMonotonic ==
    [][/\ dex \subseteq dex' \/ (ResetDex /\ dex' = {})
       /\ (WinStep /\ battle.pref \in dex) => dex' = dex]_vars

\* C15 witness: the creature without quizzes has just been defeated, its
\* region was in the Dex before the step together with another region, and
\* the Dex is what it was
C15_Witness ==
    /\ battle # Null
    /\ battle.finished = "win"
    /\ last.op = "answerFallback"
    /\ last.enc = battle.id
    /\ battle.pref \in last.dex
    /\ Cardinality(last.dex) = 2
    /\ dex = last.dex

\* C16: the Dex gains a region only in the step in which an encounter for
\* that region goes from finished none to finished win, and it gains that
\* region alone; a step of a lost or abandoned encounter, a goMap, a
\* startBattle or a timer adds nothing; and an encounter has at most one such
\* step, since a finished encounter stays finished
C16_CaptureOnlyOnWin ==
    [][/\ (dex' \ dex) # {} => (WinStep /\ dex' = dex \cup {battle.pref})
       /\ (SameEncounter /\ battle.finished # "none") =>
                battle'.finished = battle.finished]_vars

\* C16 witness: the second encounter has just been won by a right answer and
\* its region, not in the Dex before the step, is in it now
C16_Witness ==
    /\ battle # Null
    /\ battle.id = 2
    /\ battle.finished = "win"
    /\ last.op = "answerCorrectWin"
    /\ last.enc = battle.id
    /\ battle.pref \notin last.dex
    /\ dex = last.dex \cup {battle.pref}

(***************************************************************************)
(* Scenario A: one region, whose creature has hp 7, difficulty 3 and one   *)
(* quiz with right choice 1.  The player gives the right choice each time, *)
(* and each time after the enemy counter of the answer before has run, and *)
(* leaves or restarts a battle only once it is finished.                   *)
(***************************************************************************)
ScenarioADoc == StatDoc(<<7>>, <<3>>)

InitScenarioA == InitFrom({ScenarioADoc})

\* answer(choiceIdx) with the right choice, while no enemy counter is pending
AnswerInTurn(choiceIdx) ==
    /\ battle # Null
    /\ CountersIn(timers) = {}
    /\ IsCorrect(choiceIdx)
    /\ answer(choiceIdx)

\* no encounter is under way: the scenario leaves no encounter unfinished
NoOpenEncounter == IF battle = Null THEN TRUE ELSE battle.finished # "none"

NextScenarioA ==
    \/ LoadData
    \/ \E to \in {"title", "name", "map", "dex"} : Navigate(to)
    \/ ResetDex
    \/ \E pref \in prefs : NoOpenEncounter /\ startBattle(pref)
    \/ \E choiceIdx \in Choices : AnswerInTurn(choiceIdx)
    \/ \E i \in 1 .. Len(timers) : EnemyCounter(i)
    \/ \E i \in 1 .. Len(timers) : NestedTimer(i)
    \/ \E i \in 1 .. Len(timers) : ResultTimer(i)
    \/ NoOpenEncounter /\ goMap
    \/ NoOpenEncounter /\ goDex

SpecScenarioA == InitScenarioA /\ [][NextScenarioA]_vars

\* C17: in Scenario A enemyMaxHp is 7 and playerMaxHp 5; <<enemyHp, playerHp>>
\* goes through <<7,5>>, <<5,5>>, <<5,4>>, <<3,4>>, <<3,3>>, <<1,3>>, <<1,2>>,
\* <<0,2>> and nothing else, the player waiting for the counter exactly in
\* the states after a right answer; the encounter is won exactly at enemyHp 0,
\* after the 4th right answer and with playerHp 2, and it is never lost
C17_ScenarioA ==
    battle # Null =>
        /\ battle.enemyMaxHp = 7
        /\ battle.playerMaxHp = 5
        /\ <<battle.enemyHp, battle.playerHp>> \in
                {<<7, 5>>, <<5, 5>>, <<5, 4>>, <<3, 4>>, <<3, 3>>, <<1, 3>>, <<1, 2>>, <<0, 2>>}
        /\ battle.answered =
                (<<battle.enemyHp, battle.playerHp>> \in {<<5, 5>>, <<3, 4>>, <<1, 3>>, <<0, 2>>})
        /\ (battle.finished = "win") = (battle.enemyHp = 0)
        /\ battle.finished # "lose"
        /\ battle.playerHp > 0

\* C17 witness: the 4th right answer has just won the encounter, with the
\* player at 2
C17_Witness ==
    /\ battle # Null
    /\ last.op = "answerCorrectWin"
    /\ last.enc = battle.id
    /\ battle.enemyHp = 0
    /\ battle.playerHp = 2
    /\ battle.finished = "win"
    /\ battle.pref \in dex

\* x is a record (a JSON object, neither an array nor null)
IsRecord(x) == x.t = "object"

\* C18: a dataset is accepted (data set) only if the document is a record
\* with a numeric version and a monsters field that is itself a record
C18_AcceptedOnlyRecords ==
    data # Null =>
        /\ IsRecord(doc)
        /\ Field(doc, "version").t = "number"
        /\ IsRecord(Field(doc, "monsters"))

\* C18, the rejected document: when isValidData fails the dataset stays
\* unset, the error is set once the load has run, and there is no BattleState
C18_RejectedNeverBattles ==
    ~isValidData(doc) =>
        /\ data = Null
        /\ battle = Null
        /\ encounters = 0
        /\ scene = "loading"
        /\ last.op # "init" => err # Null

\* C19: in every state with an active unfinished encounter, answered is true
\* exactly when an enemy counter scheduled by that encounter is pending
C19_AnsweredIffCounterPending ==
    (battle # Null /\ battle.finished = "none") =>
        (battle.answered = (PendingCounters(battle.id) # {}))

\* C19, in the encounters with quizzes alone
C19_AnsweredIffCounterPendingQuiz ==
    (battle # Null /\ battle.finished = "none" /\ ~Fallback(battle)) =>
        (battle.answered = (PendingCounters(battle.id) # {}))

\* C19, one direction in the encounters with quizzes: answered is never true
\* with no counter of the encounter pending
C19_AnsweredThenCounterPending ==
    (battle # Null /\ battle.finished = "none" /\ ~Fallback(battle)) =>
        (battle.answered => PendingCounters(battle.id) # {})

(***************************************************************************)
(* Fair timers: the event loop runs every callback given to setTimeout     *)
(* once its delay has passed, so a timer that stays due is run.            *)
(***************************************************************************)
\* the dataset with the given regions of Monsters
DocOf(regions) ==
    JObject([version |-> JNumber(1),
             monsters |-> JObject([p \in regions |-> Monsters[p]])])

\* the dataset of SpecFair: the region with three quizzes and difficulty 5
FairDoc == DocOf({"Hard"})

SpecFair ==
    /\ InitFrom({FairDoc})
    /\ [][Next]_vars
    /\ WF_vars(\E i \in 1 .. Len(timers) : EnemyCounter(i))
    /\ WF_vars(\E i \in 1 .. Len(timers) : NestedTimer(i))
    /\ WF_vars(\E i \in 1 .. Len(timers) : ResultTimer(i))

\* encounter e has quizzes, is active and unfinished, and answered is true
Locked(e) ==
    /\ battle # Null
    /\ battle.id = e
    /\ ~Fallback(battle)
    /\ battle.finished = "none"
    /\ battle.answered

\* a run of an enemy counter takes that counter, and no other, from the
\* pending timers, and takes its damage from the player of an active
\* unfinished encounter once, and changes nothing otherwise; no step
\* schedules more than one counter
CounterRunsOnce ==
    /\ \A i \in 1 .. Len(timers) :
            EnemyCounter(i) =>
                /\ Cardinality(CountersIn(timers')) = Cardinality(CountersIn(timers)) - 1
                /\ IF battle # Null /\ battle.finished = "none"
                   THEN battle'.playerHp =
                            Max2(0, battle.playerHp
                                    - calcDamage("enemy", timers[i].enemy.difficulty))
                   ELSE battle' = battle
    /\ Cardinality(CountersIn(timers')) <= Cardinality(CountersIn(timers)) + 1

\* C20: with fair timers, every scheduled enemy counter runs, once (the
\* pending counters run out again and again, and a run removes its counter
\* and applies its damage once, or nothing when the battle is finished or
\* gone); and an encounter with quizzes whose answered is true comes to
\* answered false, or is finished, or is left
C20_LockReleased ==
    /\ [][CounterRunsOnce]_vars
    /\ []<>(CountersIn(timers) = {})
    /\ \A e \in 1 .. MaxEncounters : Locked(e) ~> ~Locked(e)

\* C20 witness: the counter of the second encounter has just run on it, took
\* its damage and released the lock, and no counter is pending
C20_Witness ==
    /\ battle # Null
    /\ battle.id = 2
    /\ last.op = "counter"
    /\ last.enc = battle.id
    /\ battle.lastMsg.text = "counterHit"
    /\ battle.finished = "none"
    /\ battle.answered = FALSE
    /\ CountersIn(timers) = {}

\* C22: in every state with an active encounter, finished is win exactly
\* when enemyHp is 0, grayscaleEnemy is true exactly when enemyHp is 0,
\* finished is lose exactly when playerHp is 0, and enemyHp and playerHp are
\* not both 0
C22_TerminalMatchesHp ==
    battle # Null =>
        /\ (battle.finished = "win") = (battle.enemyHp = 0)
        /\ battle.grayscaleEnemy = (battle.enemyHp = 0)
        /\ (battle.finished = "lose") = (battle.playerHp = 0)
        /\ ~(battle.enemyHp = 0 /\ battle.playerHp = 0)

\* C22 witness: the second encounter is won with the player at 1, and an
\* enemy counter has just run on it and changed nothing
C22_Witness ==
    /\ battle # Null
    /\ battle.id = 2
    /\ last.op = "counter"
    /\ battle.finished = "win"
    /\ battle.enemyHp = 0
    /\ battle.grayscaleEnemy
    /\ battle.playerHp = 1

\* C23: an enemy counter that runs while no encounter is active leaves battle
\* null and the Dex, the scene and the error as they are
C23_CounterOnNullBattle ==
    [][\A i \in 1 .. Len(timers) :
            (battle = Null /\ EnemyCounter(i)) =>
                /\ battle' = Null
                /\ dex' = dex
                /\ scene' = scene
                /\ err' = err]_vars

\* C23 witness: the counter of the first encounter has just run on the map
\* screen, after goMap discarded the battle, and battle is null
C23_Witness ==
    /\ battle = Null
    /\ last.op = "counter"
    /\ last.enc = 1
    /\ encounters = 1
    /\ scene = "map"
    /\ \E i \in 1 .. Len(timers) : timers[i].kind = "nested"

\* C25: in every state, the result scene is shown only over an encounter
\* that is active and finished (win or lose)
C25_ResultSceneHasFinishedBattle ==
    scene = "result" =>
        /\ battle # Null
        /\ battle.finished \in {"win", "lose"}

\* encounter e is active and finished
Finished(e) ==
    /\ battle # Null
    /\ battle.id = e
    /\ battle.finished # "none"

\* C24: with fair timers, an encounter that is finished (won, or lost by a
\* wrong answer or by the enemy counter) comes to be shown on the result
\* scene, unless it is left first
C24_ResultShown ==
    \A e \in 1 .. MaxEncounters :
        Finished(e) ~> (~Finished(e) \/ scene = "result")

\* C24, without the loss by the enemy counter: with fair timers, an encounter
\* that is won, or lost by a wrong answer, comes to be shown on the result
\* scene, unless it is left first
C24_ResultShownUnlessCounterLoss ==
    \A e \in 1 .. MaxEncounters :
        (Finished(e) /\ battle.lastMsg.text # "counterLost")
            ~> (~Finished(e) \/ scene = "result")

(***************************************************************************)
(* Every creature of the range the dataset is meant to hold: one region,   *)
(* whose creature has a base hp of 3 .. 30, a difficulty of 1 .. 5 and one *)
(* quiz.  The player plays as in Scenario A: the right choice each time,   *)
(* each time after the enemy counter of the answer before has run.         *)
(***************************************************************************)
WinnableDocs == {StatDoc(<<hp>>, <<difficulty>>) : hp \in 3 .. 30, difficulty \in 1 .. 5}

InitWinnable == InitFrom(WinnableDocs)

SpecWinnable == InitWinnable /\ [][NextScenarioA]_vars

\* C26: an encounter played with right answers only, each given after the
\* enemy counter of the answer before has run, is never lost: playerHp does
\* not reach 0
C26_InTurnNeverLost ==
    battle # Null =>
        /\ battle.finished # "lose"
        /\ battle.playerHp > 0

\* C26, what holds instead: such an encounter is lost exactly when the
\* creature needs more right answers than the player survives counters, that
\* is when enemyMaxHp is above 10 at a difficulty up to 3 (hits of 2 against
\* counters of 1) or above 3 at difficulty 4 or 5 (hits of 1 against
\* counters of 2), and enemyMaxHp is above 3 for every creature of
\* difficulty 4 or 5
C26_InTurnBalance ==
    battle # Null =>
        LET d == battle.enemy.difficulty[1]
            tooStrong == IF d <= 3 THEN battle.enemyMaxHp > 10 ELSE battle.enemyMaxHp > 3
        IN  /\ battle.finished = "lose" => tooStrong
            /\ battle.finished = "win" => ~tooStrong
            /\ d >= 4 => tooStrong

(***************************************************************************)
(* Continued play: the timers are fair, and the player submits an answer   *)
(* whenever a button for one stays available.                              *)
(***************************************************************************)
SpecFairPlay ==
    /\ Spec
    /\ WF_vars(\E i \in 1 .. Len(timers) : EnemyCounter(i))
    /\ WF_vars(\E i \in 1 .. Len(timers) : NestedTimer(i))
    /\ WF_vars(\E i \in 1 .. Len(timers) : ResultTimer(i))
    /\ WF_vars(AnswerStep)

\* encounter e is active and unfinished, and shown on the battle screen
Open(e) ==
    /\ battle # Null
    /\ battle.id = e
    /\ battle.finished = "none"
    /\ scene = "battle"

\* C27: under continued play every encounter terminates: an encounter that
\* is unfinished on the battle screen comes to be finished (or is left)
C27_EncounterTerminates ==
    \A e \in 1 .. MaxEncounters : Open(e) ~> ~Open(e)

\* C27, the steps: within one encounter neither enemyHp nor playerHp ever
\* goes up, and an answer() that gets to its setBattle on an unfinished
\* encounter takes at least 1 from one of them
C27_HpOnlyDecreases ==
    [][SameEncounter =>
            /\ battle'.enemyHp <= battle.enemyHp
            /\ battle'.playerHp <= battle.playerHp
            /\ (AnswerStep /\ battle.finished = "none" /\ last'.op # "answerThrows") =>
                    battle'.enemyHp + battle'.playerHp < battle.enemyHp + battle.playerHp]_vars

\* C27, what ends the play: an unfinished encounter on the battle screen
\* whose quizIndex is in range, or whose creature has no quiz
Answerable ==
    (battle # Null /\ battle.finished = "none") =>
        (Fallback(battle) \/ QuizPanel)

(***************************************************************************)
(* One encounter with its inputs recorded: the player submits any choices, *)
(* at any time against the timers, and inputs keeps the sequence of them.  *)
(***************************************************************************)
ReplayDoc == DocOf({"Easy", "Hard"})

InitReplay ==
    /\ scene = "loading"
    /\ doc = ReplayDoc
    /\ data = Null
    /\ err = Null
    /\ dex = {}
    /\ battle = Null
    /\ timers = <<>>
    /\ encounters = 0
    /\ last = [op |-> "init", enc |-> 0, dex |-> dex]
    /\ inputs = [recording |-> TRUE, choices |-> <<>>]

NextReplay ==
    \/ LoadData
    \/ \E to \in {"title", "name", "map", "dex"} : Navigate(to)
    \/ \E pref \in prefs : encounters = 0 /\ startBattle(pref)
    \/ \E choiceIdx \in Choices :
            Len(inputs.choices) < MaxInputs /\ answer(choiceIdx)
    \/ \E i \in 1 .. Len(timers) : EnemyCounter(i)
    \/ \E i \in 1 .. Len(timers) : NestedTimer(i)
    \/ \E i \in 1 .. Len(timers) : ResultTimer(i)

SpecReplay == InitReplay /\ [][NextReplay]_vars

\* the combat turn by turn: the choice c is resolved on r = (enemyHp,
\* playerHp, quizIndex, finished) for the creature m, together with the
\* enemy counter it calls for
ReplayTurn(r, m, c) ==
    LET d == Into1To5(Nullish(m.difficulty, 3))
        n == Len(QuizzesOf(m))
        hit == IF r.enemyHp - DamageTable("player", d) < 0
               THEN 0 ELSE r.enemyHp - DamageTable("player", d)
        hurt == IF r.playerHp - DamageTable("enemy", d) < 0
                THEN 0 ELSE r.playerHp - DamageTable("enemy", d)
        turned == [r EXCEPT !.playerHp = hurt,
                            !.quizIndex = (r.quizIndex + 1) % n,
                            !.finished = IF hurt = 0 THEN "lose" ELSE "none"]
    IN  IF r.finished # "none"
        THEN r
        ELSE IF QuizzesOf(m)[r.quizIndex + 1].a # c
        THEN turned
        ELSE IF hit = 0
        THEN [r EXCEPT !.enemyHp = 0, !.finished = "win"]
        ELSE [turned EXCEPT !.enemyHp = hit]

RECURSIVE Replay(_, _, _)
Replay(r, m, cs) ==
    IF cs = <<>> THEN r ELSE Replay(ReplayTurn(r, m, Head(cs)), m, Tail(cs))

\* C21: the combat depends on the creature and on the submitted choices
\* alone: whenever no enemy counter is pending, enemyHp, playerHp, quizIndex
\* and finished are those of the turn-by-turn combat for the choices
\* submitted so far, and the Dex holds the region exactly if that is won,
\* whenever the counters ran between the submissions
C21_TimingIndependent ==
    (battle # Null /\ CountersIn(timers) = {}) =>
        LET start == [enemyHp |-> battle.enemyMaxHp,
                      playerHp |-> battle.playerMaxHp,
                      quizIndex |-> 0,
                      finished |-> "none"]
            r == Replay(start, battle.enemy, inputs.choices)
        IN  /\ battle.enemyHp = r.enemyHp
            /\ battle.playerHp = r.playerHp
            /\ battle.quizIndex = r.quizIndex
            /\ battle.finished = r.finished
            /\ dex = IF r.finished = "win" THEN {battle.pref} ELSE {}
====
